---- MODULE Spec2Model ----
(***************************************************************************)
(* Model of the data pipeline of reon-heat-visualization.                  *)
(*                                                                         *)
(* The state is that of one mounted instance of the useRuntimeData hook    *)
(* (src/src/hooks/useRuntimeData.ts): its four useState cells, its two     *)
(* refs, the interval timers it owns and the fetches it has in flight.     *)
(* One action models one handler of the hook, run to completion: React     *)
(* runs effects, timer callbacks and promise continuations one at a time.  *)
(***************************************************************************)
EXTENDS Integers, Sequences, FiniteSets, TLC

(***************************************************************************)
(* Bounds of the model.                                                    *)
(***************************************************************************)
\* number of fetches (initial, polling ticks, manual refetches) one run starts
MaxFetches == 3
\* number of interval timers one run creates
MaxTimers == 2

(***************************************************************************)
(* Program constants.                                                      *)
(***************************************************************************)
\* useRuntimeData.ts:48  pollingInterval = 30000
DefaultPollingInterval == 30000

\* the JavaScript null
Null == [null |-> TRUE]

(***************************************************************************)
(* RuntimeDataResponse payloads.  An object is the sequence of its         *)
(* key/value entries in insertion order (the order JSON.parse creates and  *)
(* JSON.stringify walks); an array is a sequence.                          *)
(***************************************************************************)
Point(t, s) == [time |-> t, rtsources |-> s]

Entry(d, pts) == [date |-> d, points |-> pts]

Payload(entries) == [meta |-> <<"Battery", "Solar">>, data |-> entries]

\* two dates, two points each
PayloadA ==
    Payload(<<Entry("2024-01-01", <<Point("00:00", 1), Point("00:30", 2)>>),
              Entry("2024-01-02", <<Point("00:00", 3), Point("00:30", 4)>>)>>)

\* PayloadA with one field changed (rtsources of the last point)
PayloadB ==
    Payload(<<Entry("2024-01-01", <<Point("00:00", 1), Point("00:30", 2)>>),
              Entry("2024-01-02", <<Point("00:00", 3), Point("00:30", 5)>>)>>)

\* PayloadA with the same keys and values, the date keys in the other order
PayloadAReordered ==
    Payload(<<Entry("2024-01-02", <<Point("00:00", 3), Point("00:30", 4)>>),
              Entry("2024-01-01", <<Point("00:00", 1), Point("00:30", 2)>>)>>)

Payloads == {PayloadA, PayloadB, PayloadAReordered}

(***************************************************************************)
(* JSON.stringify of a payload: the token sequence the serializer writes,  *)
(* walking every object in insertion order.                                *)
(***************************************************************************)
RECURSIVE Concat(_)
Concat(ss) == IF ss = <<>> THEN <<>> ELSE Head(ss) \o Concat(Tail(ss))

StringifyPoint(p) ==
    <<"{", "time", ":", p.time, ",", "rtsources", ":", ToString(p.rtsources), "}">>

StringifyPoints(pts) ==
    <<"[">> \o Concat([i \in 1..Len(pts) |-> StringifyPoint(pts[i])]) \o <<"]">>

StringifyEntry(e) == <<e.date, ":">> \o StringifyPoints(e.points)

JSONStringify(p) ==
    <<"{", "meta", ":", "[">> \o p.meta \o <<"]", ",", "data", ":", "{">>
      \o Concat([i \in 1..Len(p.data) |-> StringifyEntry(p.data[i])])
      \o <<"}", "}">>

(***************************************************************************)
(* Objects have an identity: ref names the fetch whose response.json()     *)
(* created the object, val is its content.  setData(prev => prev) keeps    *)
(* the held object, setData(prev => result) installs a new one.            *)
(***************************************************************************)
Obj(id, v) == [ref |-> id, val |-> v]

\* variant: the comparison is by object identity
hasDataChangedByIdentity(oldData, newData) == oldData # newData

(***************************************************************************)
(* hasDataChanged(oldData, newData), useRuntimeData.ts:29-38.              *)
(***************************************************************************)
hasDataChanged(oldData, newData) ==
    IF oldData = Null /\ newData = Null THEN FALSE
    ELSE IF oldData = Null \/ newData = Null THEN TRUE
    ELSE JSONStringify(oldData.val) # JSONStringify(newData.val)

(***************************************************************************)
(* What the network can answer to one GET of the endpoint.                 *)
(***************************************************************************)
HttpOk(p) == [kind |-> "ok", body |-> p]

HttpNotFound == [kind |-> "http", status |-> 404, statusText |-> "Not Found"]

NetworkFailure == [kind |-> "network", message |-> "Failed to fetch"]

Responses == {HttpOk(p) : p \in Payloads} \cup {HttpNotFound, NetworkFailure}

(***************************************************************************)
(* fetchRuntimeData(), runtime-data.service.ts: the promise it returns     *)
(* resolves with the parsed body or rejects with an ApiError.              *)
(***************************************************************************)
Resolved(v) == [ok |-> TRUE, value |-> v]

Rejected(e) == [ok |-> FALSE, error |-> e]

\* variant: the catch block wraps every failure into a message-only error
fetchRuntimeDataMessageOnly(resp) ==
    CASE resp.kind = "ok" -> Resolved(resp.body)
      [] resp.kind = "http" ->
            Rejected([message |-> "Failed to fetch data: " \o resp.statusText])
      [] resp.kind = "network" -> Rejected([message |-> resp.message])
      [] resp.kind = "badjson" -> Rejected([message |-> resp.message])
      [] resp.kind = "rejected" -> Rejected([message |-> "Failed to fetch runtime data"])

\* resp.kind: "ok" a 2xx answer with a JSON body; "http" a non-2xx answer;
\* "network" fetch() rejects with a TypeError; "badjson" response.json()
\* rejects with a SyntaxError; "rejected" a rejection with a value that has
\* no message
fetchRuntimeData(resp) ==
    CASE resp.kind = "ok" -> Resolved(resp.body)
      [] resp.kind = "http" ->
            Rejected([message |-> "Failed to fetch data: " \o resp.statusText,
                      status |-> resp.status,
                      statusText |-> resp.statusText])
      [] resp.kind = "network" -> Rejected([message |-> resp.message])
      [] resp.kind = "badjson" -> Rejected([message |-> resp.message])
      [] resp.kind = "rejected" -> Rejected([message |-> "Failed to fetch runtime data"])

(***************************************************************************)
(* State of the hook.                                                      *)
(***************************************************************************)
VARIABLES
    phase,              \* "idle" (rendered, effects not yet run), "mounted", "unmounted"
    enablePolling,      \* options.enablePolling
    pollingInterval,    \* options.pollingInterval
    data,               \* useState: held payload object or Null
    loading,            \* useState
    error,              \* useState: ApiError or Null
    isPolling,          \* useState
    pollingIntervalRef, \* useRef: id of the interval timer, NoTimer for null
    isInitialMountRef,  \* useRef
    hasCleanup,         \* the last run of the polling effect returned its cleanup
    timers,             \* ids of the interval timers that are set
    nextTimer,          \* id the next setInterval returns
    inflight,           \* fetchData calls suspended at await fetchRuntimeData()
    nextFetch,          \* id of the next fetchData call
    lastSettled,        \* the fetchData call that settled last, with the answer it got
    resolved            \* the fetchData calls (id, by) whose request has succeeded

hookVars == <<phase, enablePolling, pollingInterval, data, loading, error, isPolling,
              pollingIntervalRef, isInitialMountRef, hasCleanup, timers, nextTimer,
              inflight, nextFetch, lastSettled, resolved>>

(***************************************************************************)
(* State of the utilities of heatmap.utils.ts under test: the response     *)
(* they are given and the last call made on it.                            *)
(***************************************************************************)
VARIABLES
    response,           \* the RuntimeDataResponse the utilities read, or Null
    call                \* the last utility call: its arguments and its result

utilVars == <<response, call>>

(***************************************************************************)
(* State of the fetch clients of the api: the RuntimeDataService instance  *)
(* (its cache fields), the clock, and the calls made to it.                *)
(***************************************************************************)
VARIABLES
    cache,              \* RuntimeDataService.cache: a body or Null
    cacheTimestamp,     \* RuntimeDataService.cacheTimestamp: a time, NoTime for null
    now,                \* Date.now()
    pending,            \* fetchRuntimeData calls suspended at await fetch(...)
    lastCall            \* the api call that returned last, with its outcome

apiVars == <<cache, cacheTimestamp, now, pending, lastCall>>

(***************************************************************************)
(* The date range of Heatmap.tsx and the state of DateRangePicker.tsx:     *)
(* dateRange is Heatmap's useState (line 225), the value prop of the       *)
(* picker; availableDates is the picker's prop; event describes the last   *)
(* user event the picker handled.                                          *)
(***************************************************************************)
VARIABLES
    dateRange, showDatePicker,
    availableDates, isOpen, applyInstantly, tempDateRange, event

viewVars == <<dateRange, showDatePicker, availableDates, isOpen, applyInstantly,
              tempDateRange, event>>

vars == <<hookVars, utilVars, apiVars, viewVars>>

\* useState({ start: '', end: '' })
EmptyRange == [start |-> "", end |-> ""]

\* no component that holds a date range is in use
ViewIdle ==
    /\ dateRange = EmptyRange
    /\ showDatePicker = FALSE
    /\ availableDates = <<>>
    /\ isOpen = FALSE
    /\ applyInstantly = TRUE
    /\ tempDateRange = EmptyRange
    /\ event = Null

\* this part of the state is not in use
UtilsIdle == response = Null /\ call = Null

\* part_006:11  cacheTimestamp: number | null = null
NoTime == 0

ApiIdle ==
    /\ cache = Null
    /\ cacheTimestamp = NoTime
    /\ now = NoTime
    /\ pending = <<>>
    /\ lastCall = Null

\* useRuntimeData.ts:56  useRef(null)
NoTimer == 0

\* the option values the caller passes
PollingIntervals == {0, DefaultPollingInterval}

(***************************************************************************)
(* Pieces of fetchData, useRuntimeData.ts:59-90.                           *)
(***************************************************************************)
\* variant: the loading flag follows the initial mount only
ShowsLoadingInitialOnly(silent, isInitialMount) == isInitialMount

\* lines 62 and 85: if (!silent || isInitialMountRef.current)
ShowsLoading(silent, isInitialMount) == ~silent \/ isInitialMount

\* variant: a response older than the held object is dropped
SetDataUpdaterSequenced(prevData, result) ==
    IF prevData # Null /\ result.ref < prevData.ref THEN prevData
    ELSE IF hasDataChanged(prevData, result) THEN result ELSE prevData

\* variant: the updater returns nothing when the data has not changed
SetDataUpdaterNoReturn(prevData, result) ==
    IF hasDataChanged(prevData, result) THEN result ELSE Null

\* variant: an unchanged response clears the held data
SetDataUpdaterClearsUnchanged(prevData, result) ==
    IF hasDataChanged(prevData, result) THEN result
    ELSE IF prevData = Null THEN prevData ELSE Null

\* lines 70-75: the updater passed to setData
SetDataUpdater(prevData, result) ==
    IF hasDataChanged(prevData, result) THEN result ELSE prevData

\* variant: the catch block sets the error whatever the mode
CatchErrorAlways(silent, err, prevError) == err

\* lines 76-83: the catch block
CatchError(silent, err, prevError) == IF ~silent THEN err ELSE prevError

\* a state setter of a component that has unmounted is a no-op
SetState(cur, new) == IF phase = "unmounted" THEN cur ELSE new

\* variant: every fetchData call, silent or not, raises the loading flag
StartFetchAlwaysLoading(silent, by) ==
    /\ nextFetch <= MaxFetches
    /\ loading' = SetState(loading, TRUE)
    /\ error' = SetState(error, Null)
    /\ inflight' = inflight \cup {[id |-> nextFetch, silent |-> silent, by |-> by]}
    /\ nextFetch' = nextFetch + 1

\* lines 60-67: fetchData up to its await
StartFetch(silent, by) ==
    /\ nextFetch <= MaxFetches
    /\ loading' = SetState(loading,
                    IF ShowsLoading(silent, isInitialMountRef) THEN TRUE ELSE loading)
    /\ error' = SetState(error, Null)
    /\ inflight' = inflight \cup {[id |-> nextFetch, silent |-> silent, by |-> by]}
    /\ nextFetch' = nextFetch + 1

(***************************************************************************)
(* Pieces of the polling effect, useRuntimeData.ts:97-124.                 *)
(***************************************************************************)
\* variant: an interval of 0 is accepted
PollingDisabledNegativeOnly(ep, pi) == ~ep \/ pi < 0

\* line 99
PollingDisabled(ep, pi) == ~ep \/ pi <= 0

\* variant: clearing an interval leaves it running
clearIntervalKeeps(ts, id) == ts

clearInterval(ts, id) == ts \ {id}

\* variant: the cleanup forgets the interval without clearing it
CleanupPollingNoClear(ref, ts) == [ref |-> NoTimer, timers |-> ts]

\* lines 117-123: the cleanup the effect returns
CleanupPolling(ref, ts) ==
    IF ref # NoTimer
    THEN [ref |-> NoTimer, timers |-> clearInterval(ts, ref)]
    ELSE [ref |-> ref, timers |-> ts]

\* lines 98-124: the effect body, run with the ref and timers it finds
RunPollingEffect(ep, pi, ref, ts) ==
    IF PollingDisabled(ep, pi)
    THEN /\ isPolling' = FALSE
         /\ pollingIntervalRef' = ref
         /\ timers' = ts
         /\ nextTimer' = nextTimer
         /\ hasCleanup' = FALSE
    ELSE /\ nextTimer <= MaxTimers
         /\ isPolling' = TRUE
         /\ timers' = (IF ref # NoTimer THEN clearInterval(ts, ref) ELSE ts)
                        \cup {nextTimer}
         /\ pollingIntervalRef' = nextTimer
         /\ nextTimer' = nextTimer + 1
         /\ hasCleanup' = TRUE

(***************************************************************************)
(* Initial state: the first render of useRuntimeData(options), lines 46-57.*)
(***************************************************************************)
Init ==
    /\ phase = "idle"
    /\ enablePolling \in BOOLEAN
    /\ pollingInterval \in PollingIntervals
    /\ data = Null
    /\ loading = TRUE
    /\ error = Null
    /\ isPolling = FALSE
    /\ pollingIntervalRef = NoTimer
    /\ isInitialMountRef = TRUE
    /\ hasCleanup = FALSE
    /\ timers = {}
    /\ nextTimer = 1
    /\ inflight = {}
    /\ nextFetch = 1
    /\ lastSettled = Null
    /\ resolved = {}
    /\ UtilsIdle
    /\ ApiIdle
    /\ ViewIdle

(***************************************************************************)
(* Actions.                                                                *)
(***************************************************************************)
\* the effects of the first commit: lines 93-95, then lines 98-124
Mount ==
    /\ phase = "idle"
    /\ phase' = "mounted"
    /\ StartFetch(FALSE, "mount")
    /\ RunPollingEffect(enablePolling, pollingInterval, pollingIntervalRef, timers)
    /\ UNCHANGED <<enablePolling, pollingInterval, data, isInitialMountRef, lastSettled,
                   resolved>>
    /\ UNCHANGED <<utilVars, apiVars>>

\* a re-render with other options: the previous cleanup, then the effect again
SetOptions(ep, pi) ==
    /\ phase = "mounted"
    /\ <<ep, pi>> # <<enablePolling, pollingInterval>>
    /\ enablePolling' = ep
    /\ pollingInterval' = pi
    /\ LET c == IF hasCleanup
                THEN CleanupPolling(pollingIntervalRef, timers)
                ELSE [ref |-> pollingIntervalRef, timers |-> timers]
       IN  RunPollingEffect(ep, pi, c.ref, c.timers)
    /\ UNCHANGED <<phase, data, loading, error, isInitialMountRef, inflight,
                   nextFetch, lastSettled, resolved>>
    /\ UNCHANGED <<utilVars, apiVars>>

\* lines 112-114: the interval callback, fetchData(true)
PollTick ==
    /\ \E t \in timers : StartFetch(TRUE, "timer")
    /\ UNCHANGED <<phase, enablePolling, pollingInterval, data, isPolling,
                   pollingIntervalRef, isInitialMountRef, hasCleanup, timers,
                   nextTimer, lastSettled, resolved>>
    /\ UNCHANGED <<utilVars, apiVars>>

\* line 126: refetch: () => fetchData(false)
Refetch ==
    /\ phase = "mounted"
    /\ StartFetch(FALSE, "refetch")
    /\ UNCHANGED <<phase, enablePolling, pollingInterval, data, isPolling,
                   pollingIntervalRef, isInitialMountRef, hasCleanup, timers,
                   nextTimer, lastSettled, resolved>>
    /\ UNCHANGED <<utilVars, apiVars>>

\* lines 67-89: fetchData from the point its await settles with the
\* network's answer resp
Settle(r, resp) ==
    /\ r \in inflight
    /\ LET res == fetchRuntimeData(resp) IN
         /\ data' = SetState(data,
                      IF res.ok THEN SetDataUpdater(data, Obj(r.id, res.value))
                      ELSE data)
         /\ error' = SetState(error,
                      IF res.ok THEN error
                      ELSE CatchError(r.silent, res.error, error))
    /\ loading' = SetState(loading,
                    IF ShowsLoading(r.silent, isInitialMountRef) THEN FALSE
                    ELSE loading)
    /\ isInitialMountRef' = FALSE
    /\ inflight' = inflight \ {r}
    /\ lastSettled' = [id |-> r.id, silent |-> r.silent, by |-> r.by,
                       response |-> resp]
    /\ resolved' = IF fetchRuntimeData(resp).ok
                   THEN resolved \cup {[id |-> r.id, by |-> r.by]}
                   ELSE resolved
    /\ UNCHANGED <<phase, enablePolling, pollingInterval, isPolling,
                   pollingIntervalRef, hasCleanup, timers, nextTimer, nextFetch>>
    /\ UNCHANGED <<utilVars, apiVars>>

\* the component unmounts: the cleanup of the polling effect, lines 117-123
Unmount ==
    /\ phase = "mounted"
    /\ phase' = "unmounted"
    /\ LET c == IF hasCleanup
                THEN CleanupPolling(pollingIntervalRef, timers)
                ELSE [ref |-> pollingIntervalRef, timers |-> timers]
       IN  /\ pollingIntervalRef' = c.ref
           /\ timers' = c.timers
    /\ hasCleanup' = FALSE
    /\ UNCHANGED <<enablePolling, pollingInterval, data, loading, error, isPolling,
                   isInitialMountRef, nextTimer, inflight, nextFetch, lastSettled, resolved>>
    /\ UNCHANGED <<utilVars, apiVars>>

Next ==
    \/ Mount /\ UNCHANGED viewVars
    \/ \E ep \in BOOLEAN, pi \in PollingIntervals : SetOptions(ep, pi) /\ UNCHANGED viewVars
    \/ PollTick /\ UNCHANGED viewVars
    \/ Refetch /\ UNCHANGED viewVars
    \/ \E r \in inflight, resp \in Responses : Settle(r, resp) /\ UNCHANGED viewVars
    \/ Unmount /\ UNCHANGED viewVars

Spec == Init /\ [][Next]_vars

\* every fetch that was started resolves or rejects
SettlesEventually ==
    WF_vars(\E r \in inflight, resp \in Responses : Settle(r, resp) /\ UNCHANGED viewVars)

\* the hook as Heatmap calls it, useRuntimeData() with the default options
\* of lines 46-49, which no re-render changes
InitDefaults ==
    /\ Init
    /\ enablePolling = TRUE
    /\ pollingInterval = DefaultPollingInterval

NextDefaults ==
    \/ Mount /\ UNCHANGED viewVars
    \/ PollTick /\ UNCHANGED viewVars
    \/ Refetch /\ UNCHANGED viewVars
    \/ \E r \in inflight, resp \in Responses : Settle(r, resp) /\ UNCHANGED viewVars
    \/ Unmount /\ UNCHANGED viewVars

SpecLive == InitDefaults /\ [][NextDefaults]_vars /\ SettlesEventually

TypeOK ==
    /\ phase \in {"idle", "mounted", "unmounted"}
    /\ loading \in BOOLEAN
    /\ isPolling \in BOOLEAN
    /\ data = Null \/ data.val \in Payloads
    /\ Cardinality(inflight) <= MaxFetches

(***************************************************************************)
(* Vocabulary of the properties.                                           *)
(***************************************************************************)
\* the fetchData calls the step starts (at most one)
Started == inflight' \ inflight

\* the step is the continuation of a fetchData call; lastSettled' describes it
Settling == lastSettled' # lastSettled

Succeeded(s) == fetchRuntimeData(s.response).ok

\* the two payloads have the same serialization
Identical(p, q) == p = q

\* the two payloads differ in at least one field: another meta, another set
\* of dates, or other points under some date
EntrySet(p) == {p.data[i] : i \in 1..Len(p.data)}

DiffersInField(p, q) == p.meta # q.meta \/ EntrySet(p) # EntrySet(q)

\* the states of the controller, spec section 4.2
Ready == data # Null /\ error = Null /\ ~loading

Failed == error # Null /\ ~loading

(***************************************************************************)
(* C1: while data holds a fetched payload, a silent fetch that fails       *)
(* leaves data as it is and never sets error to a non-null value: the      *)
(* polling tick that starts a silent fetch and the settling of a silent    *)
(* fetch with a failure both keep data, and leave error either unchanged   *)
(* or null.                                                                *)
(***************************************************************************)
C1_SilentFailureKeepsData ==
    [][data # Null =>
         /\ \A r \in Started : r.silent => data' = data /\ error' \in {error, Null}
         /\ (Settling /\ lastSettled'.silent /\ ~Succeeded(lastSettled'))
               => data' = data /\ error' \in {error, Null}]_vars

\* a silent fetch has failed while a payload was held
C1_Witness ==
    /\ phase = "mounted"
    /\ lastSettled # Null
    /\ lastSettled.silent
    /\ ~Succeeded(lastSettled)
    /\ data # Null
    /\ error = Null

C3_SilentNeverTogglesLoading ==
    [][/\ \A r \in Started : r.silent => loading' = loading
       /\ (Settling /\ lastSettled'.silent) => loading' = loading]_vars

(***************************************************************************)
(* C4: a silent fetch leaves the prior state untouched: the polling tick   *)
(* that starts it and its settling with a failure leave data and error as  *)
(* they were, so Failed stays Failed with the same error and Ready stays   *)
(* Ready with the same data.                                               *)
(***************************************************************************)
C4_SilentFailureLeavesState ==
    [][/\ \A r \in Started : r.silent => data' = data /\ error' = error
       /\ (Settling /\ lastSettled'.silent /\ ~Succeeded(lastSettled'))
             => data' = data /\ error' = error]_vars

(***************************************************************************)
(* C5: refetch() runs fetchData in non-silent mode: the step that starts   *)
(* it leaves loading true, and when its request fails the step that        *)
(* settles it sets error to that failure and loading to false.             *)
(***************************************************************************)
C5_RefetchNonSilent ==
    [][/\ \A r \in Started : r.by = "refetch" => ~r.silent /\ loading'
       /\ (Settling /\ lastSettled'.by = "refetch" /\ ~Succeeded(lastSettled')
             /\ phase = "mounted")
             => /\ error' = fetchRuntimeData(lastSettled'.response).error
                /\ ~loading']_vars

\* a manual refetch has failed after the initial fetch had settled
C5_Witness ==
    /\ phase = "mounted"
    /\ lastSettled # Null
    /\ lastSettled.by = "refetch"
    /\ ~Succeeded(lastSettled)
    /\ error = fetchRuntimeData(lastSettled.response).error
    /\ ~loading
    /\ inflight = {}

(***************************************************************************)
(* C6: mounting starts one non-silent fetch, and loading is true from the  *)
(* mount until that fetch settles.                                         *)
(***************************************************************************)
C6_LoadingUntilInitialSettles ==
    /\ phase = "mounted" =>
          Cardinality({r \in inflight : r.by = "mount"}) <= 1
    /\ (phase = "mounted" /\ \E r \in inflight : r.by = "mount") => loading

(***************************************************************************)
(* C7: after the unmount no interval timer is set and the ref is null, so  *)
(* no polling tick fires and no timer-driven fetch starts.                 *)
(***************************************************************************)
C7_UnmountStopsPolling ==
    /\ [](phase = "unmounted" => timers = {} /\ pollingIntervalRef = NoTimer)
    /\ [][phase = "unmounted" => \A r \in Started : r.by # "timer"]_vars

\* the hook has unmounted after it had set a timer, with a fetch in flight
C7_Witness ==
    /\ phase = "unmounted"
    /\ nextTimer > 1
    /\ inflight # {}

(***************************************************************************)
(* C8: while mounted, the timer is set and isPolling is true exactly when  *)
(* enablePolling is true and pollingInterval > 0; otherwise no timer is    *)
(* set and isPolling is false.                                             *)
(***************************************************************************)
C8_PollingIffEnabled ==
    phase = "mounted" =>
       IF enablePolling /\ pollingInterval > 0
       THEN isPolling /\ pollingIntervalRef # NoTimer /\ timers = {pollingIntervalRef}
       ELSE ~isPolling /\ timers = {}

\* polling was on and the options have switched it off
C8_Witness ==
    /\ phase = "mounted"
    /\ nextTimer > 1
    /\ ~(enablePolling /\ pollingInterval > 0)
    /\ ~isPolling

(***************************************************************************)
(* C9: the held payload is the one of the fetch that resolved last: every  *)
(* successful settling leaves data holding the payload of that response,   *)
(* also when a fetch started later has resolved before it.                 *)
(***************************************************************************)
C9_LastResponseWins ==
    [][(Settling /\ Succeeded(lastSettled') /\ phase = "mounted") =>
         data' # Null /\ data'.val = lastSettled'.response.body]_vars

\* a manual refetch resolved after a polling tick that was started later,
\* and the held object is the one of the refetch
C9_Witness ==
    /\ phase = "mounted"
    /\ lastSettled # Null
    /\ lastSettled.by = "refetch"
    /\ Succeeded(lastSettled)
    /\ \E n \in resolved : n.by = "timer" /\ n.id > lastSettled.id
    /\ data = Obj(lastSettled.id, lastSettled.response.body)

(***************************************************************************)
(* C10, as stated: a polling tick or a manual refetch starts a fetch only  *)
(* when the controller is Ready or Failed and no fetch is in flight.       *)
(***************************************************************************)
C10_StartsOnlyWhenSettled ==
    [][\A r \in Started : r.by \in {"timer", "refetch"} =>
          inflight = {} /\ (Ready \/ Failed)]_vars

(***************************************************************************)
(* C10, amended: a polling tick or a manual refetch may start a fetch      *)
(* while others are in flight; the held payload is written only by the     *)
(* continuation of one fetch at a time: data changes only in a step that   *)
(* settles one in-flight fetch with success, and becomes the object of     *)
(* that response.                                                          *)
(***************************************************************************)
C10_WritesOnlyBySettling ==
    [][data' # data =>
         \E r \in inflight :
            /\ inflight' = inflight \ {r}
            /\ lastSettled'.id = r.id
            /\ Succeeded(lastSettled')
            /\ data' = Obj(r.id, lastSettled'.response.body)]_vars

\* a fetch started while another was in flight has written the held payload
\* while the older one is still in flight
C10_Witness ==
    /\ phase = "mounted"
    /\ lastSettled # Null
    /\ Succeeded(lastSettled)
    /\ data = Obj(lastSettled.id, lastSettled.response.body)
    /\ \E r \in inflight : r.id < lastSettled.id

(***************************************************************************)
(* C11: the change detection is canonical: when a fetch succeeds with a    *)
(* payload that has the same keys and values as the held one, whatever the *)
(* order of its keys, the held object is not replaced.                     *)
(***************************************************************************)
C11_KeyOrderIgnored ==
    [][(Settling /\ Succeeded(lastSettled') /\ phase = "mounted" /\ data # Null
          /\ ~DiffersInField(data.val, lastSettled'.response.body))
         => data' = data]_vars

(***************************************************************************)
(* The utilities of src/src/utils/heatmap.utils.ts.                        *)
(***************************************************************************)
\* number of dates of a response, and of a list of filtered dates
MaxDates == 2
\* number of points under one date
MaxPoints == 2

\* the date keys; "" is the unset bound of a date range
DateStrings == {"2024-01-01", "2024-01-02", "2024-01-03"}

\* the UTF-16 code units of a string
CodeUnits(str) ==
    CASE str = "" -> <<>>
      [] str = "2024-01-01" -> <<50, 48, 50, 52, 45, 48, 49, 45, 48, 49>>
      [] str = "2024-01-02" -> <<50, 48, 50, 52, 45, 48, 49, 45, 48, 50>>
      [] str = "2024-01-03" -> <<50, 48, 50, 52, 45, 48, 49, 45, 48, 51>>

\* the comparison of two strings by < : code unit by code unit, a proper
\* prefix first
RECURSIVE UnitsLess(_, _)
UnitsLess(a, b) ==
    IF b = <<>> THEN FALSE
    ELSE IF a = <<>> THEN TRUE
    ELSE IF Head(a) # Head(b) THEN Head(a) < Head(b)
    ELSE UnitsLess(Tail(a), Tail(b))

StrLess(a, b) == UnitsLess(CodeUnits(a), CodeUnits(b))

StrLeq(a, b) == a = b \/ StrLess(a, b)

\* Object.keys(data.data): the keys in insertion order
ObjectKeys(resp) == [i \in 1..Len(resp.data) |-> resp.data[i].date]

\* data.data[date] is defined
HasKey(resp, date) == \E i \in 1..Len(resp.data) : resp.data[i].date = date

\* data.data[date], for a key the map has
Lookup(resp, date) ==
    resp.data[CHOOSE i \in 1..Len(resp.data) : resp.data[i].date = date].points

\* Array.prototype.sort() without a comparator, on strings
RECURSIVE InsertSorted(_, _)
InsertSorted(x, sorted) ==
    IF sorted = <<>> THEN <<x>>
    ELSE IF StrLess(x, Head(sorted)) THEN <<x>> \o sorted
    ELSE <<Head(sorted)>> \o InsertSorted(x, Tail(sorted))

RECURSIVE SortStrings(_)
SortStrings(strs) ==
    IF strs = <<>> THEN <<>> ELSE InsertSorted(Head(strs), SortStrings(Tail(strs)))

\* variant: the keys are returned as Object.keys lists them
extractDatesUnsorted(resp) == ObjectKeys(resp)

\* extractDates, heatmap.utils.ts:12-14
extractDates(resp) == SortStrings(ObjectKeys(resp))

\* variant: the end of the range is exclusive
InRangeEndExclusive(date, startDate, endDate) ==
    StrLeq(startDate, date) /\ StrLess(date, endDate)

\* line 27: date >= startDate && date <= endDate
InRange(date, startDate, endDate) == StrLeq(startDate, date) /\ StrLeq(date, endDate)

\* Array.prototype.filter with the predicate of line 27
RECURSIVE FilterInRange(_, _, _)
FilterInRange(dates, startDate, endDate) ==
    IF dates = <<>> THEN <<>>
    ELSE (IF InRange(Head(dates), startDate, endDate) THEN <<Head(dates)>> ELSE <<>>)
           \o FilterInRange(Tail(dates), startDate, endDate)

\* filterDatesByRange, heatmap.utils.ts:19-28
filterDatesByRange(allDates, startDate, endDate) ==
    IF startDate = "" \/ endDate = "" \/ Len(allDates) = 0 THEN <<>>
    ELSE FilterInRange(allDates, startDate, endDate)

\* variant: the time axis is taken from the last date
extractTimeSlotsOfLast(resp, allDates) ==
    IF Len(allDates) = 0 \/ allDates[Len(allDates)] = "" THEN <<>>
    ELSE IF HasKey(resp, allDates[Len(allDates)])
         THEN LET entries == Lookup(resp, allDates[Len(allDates)])
              IN  [i \in 1..Len(entries) |-> entries[i].time]
         ELSE <<>>

\* extractTimeSlots, heatmap.utils.ts:33-39
extractTimeSlots(resp, allDates) ==
    IF Len(allDates) = 0 \/ allDates[1] = "" THEN <<>>
    ELSE IF HasKey(resp, allDates[1])
         THEN LET entries == Lookup(resp, allDates[1])
              IN  [i \in 1..Len(entries) |-> entries[i].time]
         ELSE <<>>

\* variant: the two indices are exchanged
HeatmapPointSwapped(timeIndex, dateIndex, entry) ==
    [timeIndex |-> dateIndex, dateIndex |-> timeIndex, value |-> entry.rtsources]

\* lines 55-59: the point pushed for one entry
HeatmapPoint(timeIndex, dateIndex, entry) ==
    [timeIndex |-> timeIndex, dateIndex |-> dateIndex, value |-> entry.rtsources]

\* lines 50-61: filteredDates.forEach from the date at position i (1-based)
RECURSIVE TransformFrom(_, _, _)
TransformFrom(resp, filteredDates, i) ==
    IF i > Len(filteredDates) THEN <<>>
    ELSE (IF HasKey(resp, filteredDates[i])
          THEN LET entries == Lookup(resp, filteredDates[i])
               IN  [t \in 1..Len(entries) |-> HeatmapPoint(t - 1, i - 1, entries[t])]
          ELSE <<>>)
           \o TransformFrom(resp, filteredDates, i + 1)

\* the dates of a list that the map has
RECURSIVE PresentDates(_, _)
PresentDates(resp, dates) ==
    IF dates = <<>> THEN <<>>
    ELSE (IF HasKey(resp, Head(dates)) THEN <<Head(dates)>> ELSE <<>>)
           \o PresentDates(resp, Tail(dates))

\* variant: a date the map lacks does not consume its index
transformToHeatmapDataCompacted(resp, filteredDates) ==
    TransformFrom(resp, PresentDates(resp, filteredDates), 1)

\* transformToHeatmapData, heatmap.utils.ts:44-64
transformToHeatmapData(resp, filteredDates) == TransformFrom(resp, filteredDates, 1)

(***************************************************************************)
(* The inputs of the utilities.                                            *)
(***************************************************************************)
UtilPoints == {Point("00:00", 1), Point("00:30", 2)}

PointLists == UNION {[1..n -> UtilPoints] : n \in 0..MaxPoints}

\* lists of distinct dates
DateLists ==
    UNION {{l \in [1..n -> DateStrings] :
              \A i, j \in 1..n : i # j => l[i] # l[j]} : n \in 0..MaxDates}

\* every response with at most MaxDates dates in any insertion order
UtilResponses ==
    UNION {{Payload([i \in 1..Len(l) |-> Entry(l[i], pts[i])]) :
              pts \in [1..Len(l) -> PointLists]} : l \in DateLists}

\* the bounds of a date range: a date or unset
RangeBounds == DateStrings \cup {""}

\* the hook is not in use
HookIdle ==
    /\ phase = "idle"
    /\ enablePolling = TRUE
    /\ pollingInterval = DefaultPollingInterval
    /\ data = Null
    /\ loading = TRUE
    /\ error = Null
    /\ isPolling = FALSE
    /\ pollingIntervalRef = NoTimer
    /\ isInitialMountRef = TRUE
    /\ hasCleanup = FALSE
    /\ timers = {}
    /\ nextTimer = 1
    /\ inflight = {}
    /\ nextFetch = 1
    /\ lastSettled = Null
    /\ resolved = {}

InitUtils ==
    /\ response \in UtilResponses
    /\ call = Null
    /\ HookIdle
    /\ ApiIdle
    /\ ViewIdle

\* extractDates(response); the call may be repeated
CallExtractDates ==
    /\ IF call = Null THEN TRUE ELSE call.fn = "extractDates" /\ ~call.again
    /\ call' = [fn |-> "extractDates", result |-> extractDates(response),
                again |-> call # Null]
    /\ UNCHANGED <<response, hookVars, apiVars, viewVars>>

\* filterDatesByRange(allDates, start, end) on the dates of the response
CallFilterDatesByRange(startDate, endDate) ==
    /\ call = Null
    /\ call' = [fn |-> "filterDatesByRange", allDates |-> extractDates(response),
                startDate |-> startDate, endDate |-> endDate,
                result |-> filterDatesByRange(extractDates(response), startDate, endDate)]
    /\ UNCHANGED <<response, hookVars, apiVars, viewVars>>

\* extractTimeSlots(data, extractDates(data)), as Heatmap.tsx calls it
CallExtractTimeSlots ==
    /\ call = Null
    /\ call' = [fn |-> "extractTimeSlots", allDates |-> extractDates(response),
                result |-> extractTimeSlots(response, extractDates(response))]
    /\ UNCHANGED <<response, hookVars, apiVars, viewVars>>

\* transformToHeatmapData(response, filteredDates)
CallTransformToHeatmapData(filteredDates) ==
    /\ call = Null
    /\ call' = [fn |-> "transformToHeatmapData", filteredDates |-> filteredDates,
                result |-> transformToHeatmapData(response, filteredDates)]
    /\ UNCHANGED <<response, hookVars, apiVars, viewVars>>

(***************************************************************************)
(* The CSV export, Heatmap.tsx:299-336.  A row is the sequence of the      *)
(* values the template literal of line 315 joins with commas; the fields   *)
(* of a point other than time and rtsources are numbers the payloads of    *)
(* the model do not carry.                                                 *)
(***************************************************************************)
\* line 307: the header, split at its commas
CsvHeader ==
    <<"Date", "Time", "rtsources", "sys_volt", "batt_curr", "batt_volt", "rect_curr",
      "load_curr">>

\* entry[name] of a RuntimeDataPoint
NumberField(entry, name) == IF name \in DOMAIN entry THEN entry[name] ELSE 0

\* line 315: the row of one entry; every value is interpolated as it is
CsvRow(date, entry) ==
    <<date, entry.time, entry.rtsources, NumberField(entry, "sys_volt"),
      NumberField(entry, "batt_curr"), NumberField(entry, "batt_volt"),
      NumberField(entry, "rect_curr"), NumberField(entry, "load_curr")>>

\* lines 310-319: filteredDates.forEach from the date at position i
RECURSIVE CsvRowsFrom(_, _, _)
CsvRowsFrom(resp, filteredDates, i) ==
    IF i > Len(filteredDates) THEN <<>>
    ELSE (IF HasKey(resp, filteredDates[i])
          THEN LET entries == Lookup(resp, filteredDates[i])
               IN  [t \in 1..Len(entries) |-> CsvRow(filteredDates[i], entries[t])]
          ELSE <<>>)
           \o CsvRowsFrom(resp, filteredDates, i + 1)

\* lines 304-322: csvRows, the lines of the file
handleDownloadData(resp, filteredDates) ==
    <<CsvHeader>> \o CsvRowsFrom(resp, filteredDates, 1)

\* "Download Data" with the date range startDate..endDate applied: the
\* handler runs on the filteredDates of lines 258-261
CallHandleDownloadData(startDate, endDate) ==
    /\ call = Null
    /\ LET filteredDates == filterDatesByRange(extractDates(response), startDate, endDate)
       IN  call' = [fn |-> "handleDownloadData", filteredDates |-> filteredDates,
                    result |-> handleDownloadData(response, filteredDates)]
    /\ UNCHANGED <<response, hookVars, apiVars, viewVars>>

NextUtils ==
    \/ \E startDate \in RangeBounds, endDate \in RangeBounds :
          CallHandleDownloadData(startDate, endDate)
    \/ CallExtractDates
    \/ \E startDate \in RangeBounds, endDate \in RangeBounds :
          CallFilterDatesByRange(startDate, endDate)
    \/ CallExtractTimeSlots
    \/ \E filteredDates \in DateLists : CallTransformToHeatmapData(filteredDates)

SpecUtils == InitUtils /\ [][NextUtils]_vars

(***************************************************************************)
(* Vocabulary of the properties of the utilities.                          *)
(***************************************************************************)
Called(fn) == call # Null /\ call.fn = fn

\* the points the response holds under a date, none for a date it lacks
PointsOf(date) == IF HasKey(response, date) THEN Lookup(response, date) ELSE <<>>

\* seq lists elements of base, each at most once, in the order of base
IsSubsequence(seq, base) ==
    \E pos \in [1..Len(seq) -> 1..Len(base)] :
       /\ \A i \in 1..Len(seq) : base[pos[i]] = seq[i]
       /\ \A i, j \in 1..Len(seq) : i < j => pos[i] < pos[j]

RECURSIVE SumOfPointCounts(_)
SumOfPointCounts(dates) ==
    IF dates = <<>> THEN 0
    ELSE Len(PointsOf(Head(dates))) + SumOfPointCounts(Tail(dates))

(***************************************************************************)
(* C16: filterDatesByRange(allDates, start, end) returns exactly the dates *)
(* d of allDates with start <= d <= end, both ends included, in their      *)
(* original order; it returns the empty list when start is empty, end is   *)
(* empty or allDates is empty, and, as nothing validates start <= end,     *)
(* also when start > end.                                                  *)
(***************************************************************************)
C16_FilterDatesByRange ==
    Called("filterDatesByRange") =>
       LET all == call.allDates
           st == call.startDate
           en == call.endDate
           res == call.result
       IN  IF st = "" \/ en = "" \/ all = <<>> \/ StrLess(en, st)
           THEN res = <<>>
           ELSE /\ IsSubsequence(res, all)
                /\ \A i \in 1..Len(all) :
                      (\E k \in 1..Len(res) : res[k] = all[i])
                         <=> (StrLeq(st, all[i]) /\ StrLeq(all[i], en))

\* a range that ends on a date of the list and keeps some dates out
C16_Witness ==
    /\ Called("filterDatesByRange")
    /\ call.result # <<>>
    /\ call.result[Len(call.result)] = call.endDate
    /\ Len(call.result) < Len(call.allDates)

(***************************************************************************)
(* C17: transformToHeatmapData(response, filteredDates) emits exactly the  *)
(* sum over filteredDates of the number of points of each date, per date   *)
(* then per slot, each entry with dateIndex in [0, len(filteredDates)),    *)
(* timeIndex in [0, number of points of that date) and value equal to the  *)
(* rtsources of that point.                                                *)
(***************************************************************************)
C17_TransformShape ==
    Called("transformToHeatmapData") =>
       LET fd == call.filteredDates
           res == call.result
       IN  /\ Len(res) = SumOfPointCounts(fd)
           /\ \A k \in 1..Len(res) :
                 /\ res[k].dateIndex \in 0..(Len(fd) - 1)
                 /\ res[k].timeIndex \in
                       0..(Len(PointsOf(fd[res[k].dateIndex + 1])) - 1)
                 /\ res[k].value =
                       PointsOf(fd[res[k].dateIndex + 1])[res[k].timeIndex + 1].rtsources
           /\ \A k \in 1..(Len(res) - 1) :
                 \/ res[k].dateIndex < res[k + 1].dateIndex
                 \/ /\ res[k].dateIndex = res[k + 1].dateIndex
                    /\ res[k].timeIndex < res[k + 1].timeIndex

\* two dates with two points each, rtsources differing inside a date
C17_Witness ==
    /\ Called("transformToHeatmapData")
    /\ Len(call.filteredDates) = 2
    /\ Len(call.result) = 4
    /\ call.result[1].value # call.result[2].value
    /\ call.result[3] = [timeIndex |-> 0, dateIndex |-> 1, value |-> call.result[3].value]

(***************************************************************************)
(* C18: a date of filteredDates that the response's map lacks emits no     *)
(* point, and the dateIndex of every emitted point is the position of its  *)
(* date in filteredDates: every position emits as many points as its date  *)
(* has, a skipped date keeps its index.                                    *)
(***************************************************************************)
C18_AbsentDateSkipped ==
    Called("transformToHeatmapData") =>
       LET fd == call.filteredDates
           res == call.result
       IN  \A i \in 1..Len(fd) :
              Cardinality({k \in 1..Len(res) : res[k].dateIndex = i - 1})
                 = (IF HasKey(response, fd[i]) THEN Len(Lookup(response, fd[i])) ELSE 0)

\* a date the map lacks comes before a date that emits points
C18_Witness ==
    /\ Called("transformToHeatmapData")
    /\ Len(call.filteredDates) = 2
    /\ ~HasKey(response, call.filteredDates[1])
    /\ call.result # <<>>
    /\ call.result[1].dateIndex = 1

(***************************************************************************)
(* C19: extractDates returns every key of the date map exactly once, in    *)
(* ascending lexicographic order, whatever the insertion order of the map, *)
(* and a second call on the unchanged response returns the same list.      *)
(***************************************************************************)
C19_ExtractDatesSorted ==
    /\ [](Called("extractDates") =>
            LET res == call.result IN
              /\ Len(res) = Len(response.data)
              /\ \A i \in 1..Len(response.data) :
                    Cardinality({k \in 1..Len(res) : res[k] = response.data[i].date}) = 1
              /\ \A k \in 1..(Len(res) - 1) : StrLess(res[k], res[k + 1]))
    /\ [][(Called("extractDates") /\ call' # call)
            => call'.result = call.result /\ response' = response]_vars

\* a second call on a map whose keys were inserted in descending order
C19_Witness ==
    /\ Called("extractDates")
    /\ call.again
    /\ Len(response.data) = 2
    /\ StrLess(response.data[2].date, response.data[1].date)

(***************************************************************************)
(* C20: extractTimeSlots(data, extractDates(data)) is the list of the time *)
(* fields of the chronologically first date, in their order: its length is *)
(* that date's point count whatever the other dates hold, and it is empty  *)
(* when the response has no dates.                                         *)
(***************************************************************************)
C20_TimeSlotsOfFirstDate ==
    Called("extractTimeSlots") =>
       IF response.data = <<>> THEN call.result = <<>>
       ELSE \E i \in 1..Len(response.data) :
               /\ \A j \in 1..Len(response.data) :
                     StrLeq(response.data[i].date, response.data[j].date)
               /\ Len(call.result) = Len(response.data[i].points)
               /\ \A t \in 1..Len(call.result) :
                     call.result[t] = response.data[i].points[t].time

\* the first date was inserted last and has fewer points than the other
C20_Witness ==
    /\ Called("extractTimeSlots")
    /\ Len(response.data) = 2
    /\ StrLess(response.data[2].date, response.data[1].date)
    /\ Len(response.data[2].points) < Len(response.data[1].points)
    /\ Len(call.result) = 1

(***************************************************************************)
(* The fetch clients of the api: fetchRuntimeData() of                     *)
(* runtime-data.service.ts and the cached RuntimeDataService class.        *)
(***************************************************************************)
\* number of RuntimeDataService.fetchRuntimeData calls awaiting the network
MaxPending == 2
\* how far the clock runs, in steps of ClockStep
MaxTicks == 4

\* cacheDuration = 5 * 60 * 1000
cacheDuration == 5 * 60 * 1000

\* the clock advances by half a cache duration
ClockStep == cacheDuration \div 2

(***************************************************************************)
(* A parsed JSON body, by the JavaScript type of the value and of the      *)
(* fields validateResponse reads ("undefined" for a field that is not      *)
(* there); content is the payload of a well-formed body.                   *)
(***************************************************************************)
Body(type, metaType, sourcesType, dataType, content) ==
    [type |-> type, metaType |-> metaType, sourcesType |-> sourcesType,
     dataType |-> dataType, content |-> content]

ApiBodies ==
    {Body(t, "undefined", "undefined", "undefined", Null) :
        t \in {"null", "string", "array"}}
    \cup {Body("object", m, "undefined", d, Null) :
            m \in {"undefined", "null", "string", "array"},
            d \in {"undefined", "object"}}
    \cup {Body("object", "object", src, d, Null) :
            src \in {"undefined", "object"},
            d \in {"undefined", "object"}}
    \cup {Body("object", "object", "array", d, Null) :
            d \in {"undefined", "null", "string", "array"}}
    \cup {Body("object", "object", "array", "object", p) :
            p \in {PayloadA, PayloadB}}

\* !value is false
Truthy(type) == type \notin {"undefined", "null"}

\* typeof value === 'object'
TypeofObject(type) == type \in {"null", "array", "object"}

HttpServerError == [kind |-> "http", status |-> 500, statusText |-> ""]

BadJson == [kind |-> "badjson", message |-> "Unexpected token < in JSON"]

RejectedValue == [kind |-> "rejected"]

ApiAnswers ==
    {HttpOk(b) : b \in ApiBodies}
    \cup {HttpNotFound, HttpServerError, NetworkFailure, BadJson, RejectedValue}

(***************************************************************************)
(* RuntimeDataService, src/unnamed/part_006.                               *)
(***************************************************************************)
\* createApiError, lines 96-108: status 0 and statusText "" stand for an
\* argument that was not passed; a falsy status or statusText is not copied
createApiError(message, status, statusText) ==
    IF status # 0 /\ statusText # ""
    THEN [message |-> message, status |-> status, statusText |-> statusText]
    ELSE IF status # 0 THEN [message |-> message, status |-> status]
    ELSE IF statusText # "" THEN [message |-> message, statusText |-> statusText]
    ELSE [message |-> message]

\* a value thrown inside the try block: isError says it is an instance of Error
Thrown(isError, value) == [isError |-> isError, value |-> value]

\* the block ran to its end
NoThrow == [returned |-> TRUE]

\* variant: the data field is not checked
validateResponseNoDataCheck(body) ==
    IF ~Truthy(body.type) \/ ~TypeofObject(body.type)
    THEN Thrown(FALSE, createApiError("Invalid response: data is not an object", 0, ""))
    ELSE IF ~Truthy(body.metaType) \/ ~TypeofObject(body.metaType)
    THEN Thrown(FALSE, createApiError("Invalid response: missing or invalid meta field", 0, ""))
    ELSE IF body.sourcesType # "array"
    THEN Thrown(FALSE, createApiError("Invalid response: meta.sources is not an array", 0, ""))
    ELSE NoThrow

\* validateResponse, lines 73-91: what it throws, NoThrow when it returns
validateResponse(body) ==
    IF ~Truthy(body.type) \/ ~TypeofObject(body.type)
    THEN Thrown(FALSE, createApiError("Invalid response: data is not an object", 0, ""))
    ELSE IF ~Truthy(body.metaType) \/ ~TypeofObject(body.metaType)
    THEN Thrown(FALSE, createApiError("Invalid response: missing or invalid meta field", 0, ""))
    ELSE IF body.sourcesType # "array"
    THEN Thrown(FALSE, createApiError("Invalid response: meta.sources is not an array", 0, ""))
    ELSE IF ~Truthy(body.dataType) \/ ~TypeofObject(body.dataType)
    THEN Thrown(FALSE, createApiError("Invalid response: missing or invalid data field", 0, ""))
    ELSE NoThrow

\* lines 33-47: what the try block throws for an answer, NoThrow when it
\* reaches the cache update
TryBlock(answer) ==
    CASE answer.kind = "http" ->
            Thrown(FALSE, createApiError("Failed to fetch runtime data: " \o answer.statusText,
                                         answer.status, answer.statusText))
      [] answer.kind = "network" -> Thrown(TRUE, [message |-> answer.message])
      [] answer.kind = "badjson" -> Thrown(TRUE, [message |-> answer.message])
      [] answer.kind = "rejected" -> Thrown(FALSE, Null)
      [] answer.kind = "ok" -> validateResponse(answer.body)

\* lines 54-65: the catch block, the error the caller gets
CatchBlock(thrown) ==
    IF thrown.isError /\ "status" \in DOMAIN thrown.value
    THEN thrown.value
    ELSE createApiError(
           IF thrown.isError THEN thrown.value.message
           ELSE "Unknown error occurred while fetching runtime data",
           0, "Network Error")

\* variant: a cache entry is still served when its age equals the duration
CacheFreshInclusive(ts, t) == t - ts <= cacheDuration

\* lines 28 and 125: now - this.cacheTimestamp < this.cacheDuration
CacheFresh(ts, t) == t - ts < cacheDuration

\* line 26: useCache && this.cache && this.cacheTimestamp, then line 28
CacheHit(useCache) ==
    useCache /\ cache # Null /\ cacheTimestamp # NoTime /\ CacheFresh(cacheTimestamp, now)

InitApi ==
    /\ cache = Null
    /\ cacheTimestamp = NoTime
    /\ now = ClockStep
    /\ pending = <<>>
    /\ lastCall = Null
    /\ HookIdle
    /\ UtilsIdle
    /\ ViewIdle

\* time passes
Tick ==
    /\ now + ClockStep <= MaxTicks * ClockStep
    /\ now' = now + ClockStep
    /\ UNCHANGED <<cache, cacheTimestamp, pending, lastCall, hookVars, utilVars, viewVars>>

\* RuntimeDataService.fetchRuntimeData(useCache), lines 24-34: the cached
\* payload is returned, or the call suspends at await fetch(...)
ServiceFetch(useCache) ==
    /\ IF CacheHit(useCache)
       THEN /\ lastCall' = [fn |-> "service", useCache |-> useCache, network |-> FALSE,
                            outcome |-> Resolved(cache)]
            /\ pending' = pending
       ELSE /\ Len(pending) < MaxPending
            /\ pending' = Append(pending, [useCache |-> useCache])
            /\ lastCall' = lastCall
    /\ UNCHANGED <<cache, cacheTimestamp, now, hookVars, utilVars, viewVars>>

\* lines 34-65: the network answers the i-th suspended call; nothing of the
\* service is read or written between await fetch() and await json(), so
\* the two continuations are one step, taken when the body has arrived
ServiceRespond(i, answer) ==
    /\ i \in 1..Len(pending)
    /\ pending' = [j \in 1..(Len(pending) - 1) |->
                      IF j < i THEN pending[j] ELSE pending[j + 1]]
    /\ LET thrown == TryBlock(answer) IN
         IF thrown = NoThrow
         THEN /\ cache' = answer.body
              /\ cacheTimestamp' = now
              /\ lastCall' = [fn |-> "service", useCache |-> pending[i].useCache,
                              network |-> TRUE, answer |-> answer,
                              outcome |-> Resolved(answer.body)]
         ELSE /\ UNCHANGED <<cache, cacheTimestamp>>
              /\ lastCall' = [fn |-> "service", useCache |-> pending[i].useCache,
                              network |-> TRUE, answer |-> answer,
                              outcome |-> Rejected(CatchBlock(thrown))]
    /\ UNCHANGED <<now, hookVars, utilVars, viewVars>>

\* variant: clearCache forgets the payload and keeps its timestamp
ClearCacheKeepsTimestamp ==
    /\ cache' = Null
    /\ UNCHANGED <<cacheTimestamp, now, pending, lastCall, hookVars, utilVars, viewVars>>

\* clearCache, lines 113-116
ClearCache ==
    /\ cache' = Null
    /\ cacheTimestamp' = NoTime
    /\ UNCHANGED <<now, pending, lastCall, hookVars, utilVars, viewVars>>

\* getCachedData, lines 122-130
getCachedData ==
    IF cache # Null /\ cacheTimestamp # NoTime /\ CacheFresh(cacheTimestamp, now)
    THEN cache ELSE Null

\* fetchRuntimeData() of runtime-data.service.ts, called and settled
SimpleFetch(answer) ==
    /\ lastCall' = [fn |-> "fetchRuntimeData", answer |-> answer,
                    outcome |-> fetchRuntimeData(answer)]
    /\ UNCHANGED <<cache, cacheTimestamp, now, pending, hookVars, utilVars, viewVars>>

NextApi ==
    \/ Tick
    \/ \E useCache \in BOOLEAN : ServiceFetch(useCache)
    \/ \E i \in 1..Len(pending), answer \in ApiAnswers : ServiceRespond(i, answer)
    \/ ClearCache
    \/ \E answer \in ApiAnswers : SimpleFetch(answer)

SpecApi == InitApi /\ [][NextApi]_vars

(***************************************************************************)
(* Heatmap, src/src/component/Heatmap.tsx:219-531, on top of               *)
(* useRuntimeData() with its default options.                              *)
(***************************************************************************)
\* a payload whose dates differ from those of PayloadA
PayloadC ==
    Payload(<<Entry("2024-01-02", <<Point("00:00", 3), Point("00:30", 4)>>),
              Entry("2024-01-03", <<Point("00:00", 5), Point("00:30", 6)>>)>>)

ViewResponses == {HttpOk(PayloadA), HttpOk(PayloadC), NetworkFailure}

\* what a date input can deliver as e.target.value: a date, or "" when the
\* input is cleared; min and max of the input do not restrict typed values
DateInputs == DateStrings \cup {""}

EditTypes == {"start", "end"}

\* line 223: allDates for a held payload
AllDatesOf(held) == IF held = Null THEN <<>> ELSE extractDates(held.val)

allDates == AllDatesOf(data)

\* { start: allDates[0], end: allDates[allDates.length - 1] }
FullRange(dates) == [start |-> dates[1], end |-> dates[Len(dates)]]

\* lines 232-236: the effect that initialises the date range
InitRangeEffect(dates, range) ==
    IF Len(dates) > 0 /\ range.start = "" THEN FullRange(dates) ELSE range

\* variant: every edit is accepted
EditAcceptedAlways(type, newDate, range) == TRUE

\* lines 341 and 343 (DateRangePicker.tsx:285 and 292): the edit is accepted
EditAccepted(type, newDate, range) ==
    \/ type = "start" /\ StrLeq(newDate, range.end)
    \/ type = "end" /\ StrLeq(range.start, newDate)

\* lines 341-345: the range after the edit
EditRange(type, newDate, range) ==
    IF type = "start" /\ EditAccepted(type, newDate, range)
    THEN [range EXCEPT !.start = newDate]
    ELSE IF type = "end" /\ EditAccepted(type, newDate, range)
    THEN [range EXCEPT !.end = newDate]
    ELSE range

\* lines 361-386: the chart and its controls are rendered
Rendered ==
    /\ phase = "mounted"
    /\ ~loading
    /\ error = Null
    /\ data # Null
    /\ Len(allDates) > 0

\* variant: fetchData is a new function on every render, so the effect of
\* lines 93-95 runs again
RerenderHookRefetches ==
    /\ StartFetch(FALSE, "mount")
    /\ UNCHANGED <<phase, enablePolling, pollingInterval, data, isPolling,
                   pollingIntervalRef, isInitialMountRef, hasCleanup, timers,
                   nextTimer, lastSettled, resolved>>

\* a re-render of Heatmap after setDateRange or setShowDatePicker: the
\* dependencies of the hook's effects (useRuntimeData.ts:95 and 124) are the
\* memoized fetchData and the default options, so no effect runs again
RerenderHook == UNCHANGED hookVars

PickerUntouched ==
    UNCHANGED <<availableDates, isOpen, applyInstantly, tempDateRange, event>>

InitView ==
    /\ InitDefaults

ViewMount == Mount /\ UNCHANGED viewVars

ViewPollTick == PollTick /\ UNCHANGED viewVars

\* a fetch settles; when it changes data, allDates changes and the effect
\* of lines 232-236 runs
ViewSettle(r, resp) ==
    /\ Settle(r, resp)
    /\ dateRange' = IF phase = "mounted" THEN InitRangeEffect(AllDatesOf(data'), dateRange)
                    ELSE dateRange
    /\ UNCHANGED showDatePicker
    /\ PickerUntouched

ViewUnmount == Unmount /\ UNCHANGED viewVars

\* lines 400, 439 and 242: the range label is clicked, Done is clicked, or
\* the mouse is pressed outside the open picker
SetShowDatePicker(show) ==
    /\ Rendered
    /\ show # showDatePicker
    /\ showDatePicker' = show
    /\ UNCHANGED dateRange
    /\ PickerUntouched
    /\ RerenderHook
    /\ UNCHANGED <<utilVars, apiVars>>

\* lines 338-348, then the effect of lines 232-236
HeatmapDateChange(type, newDate) ==
    /\ Rendered
    /\ showDatePicker
    /\ dateRange' = InitRangeEffect(allDates, EditRange(type, newDate, dateRange))
    /\ UNCHANGED showDatePicker
    /\ PickerUntouched
    /\ RerenderHook
    /\ UNCHANGED <<utilVars, apiVars>>

\* lines 355-359
HeatmapReset ==
    /\ Rendered
    /\ showDatePicker
    /\ dateRange' = IF Len(allDates) > 0 THEN FullRange(allDates) ELSE dateRange
    /\ UNCHANGED showDatePicker
    /\ PickerUntouched
    /\ RerenderHook
    /\ UNCHANGED <<utilVars, apiVars>>

NextView ==
    \/ ViewMount
    \/ ViewPollTick
    \/ \E r \in inflight, resp \in ViewResponses : ViewSettle(r, resp)
    \/ ViewUnmount
    \/ \E show \in BOOLEAN : SetShowDatePicker(show)
    \/ \E type \in EditTypes, newDate \in DateInputs : HeatmapDateChange(type, newDate)
    \/ HeatmapReset

SpecView == InitView /\ [][NextView]_vars

\* lines 258-261
filteredDates == filterDatesByRange(allDates, dateRange.start, dateRange.end)

(***************************************************************************)
(* DateRangePicker, src/src/component/DateRangePicker.tsx:165-432, under a *)
(* parent that holds the range in a useState and passes                    *)
(* value={dateRange} onChange={setDateRange}, as the component reference   *)
(* (part_000:93-103) shows.  A handler and the effects of the renders it   *)
(* causes are one step.                                                    *)
(***************************************************************************)
\* the availableDates a parent passes: extractDates of the held payload
AvailableDateLists == {extractDates(PayloadA), extractDates(PayloadC)}

\* the last user event: what happened, its arguments, and whether the
\* handler called onChange
Event(kind, arg, emitted) == [kind |-> kind, arg |-> arg, emitted |-> emitted]

\* lines 195-202: the effect that initialises the range
PickerInitEffect(dates, value) ==
    IF Len(dates) > 0 /\ value.start = "" /\ value.end = "" THEN FullRange(dates)
    ELSE value

\* the outcome of a handler: the value prop after its onChange calls, the
\* temporary range, and whether onChange was called
Outcome(value, temp, emitted) == [value |-> value, temp |-> temp, emitted |-> emitted]

\* variant: the range is always passed to onChange
DeliverAlwaysApplies(instant, range, value, temp) == Outcome(range, temp, TRUE)

\* lines 287-291, 294-298 and 315-319: onChange(range) in instant mode,
\* setTempDateRange(range) otherwise
Deliver(instant, range, value, temp) ==
    IF instant THEN Outcome(range, temp, TRUE) ELSE Outcome(value, range, FALSE)

\* the renders after a handler: the effect of lines 195-202 runs when
\* availableDates or an end of value has changed, the effect of lines
\* 205-209 when isOpen or the value object has changed
Commit(out, open, dates, instant, ev) ==
    LET initRuns == dates # availableDates \/ out.value.start # dateRange.start
                      \/ out.value.end # dateRange.end
        value2   == IF initRuns THEN PickerInitEffect(dates, out.value) ELSE out.value
        syncRuns == open # isOpen \/ out.emitted \/ value2 # out.value
    IN  /\ dateRange' = value2
        /\ tempDateRange' = IF syncRuns /\ open THEN value2 ELSE out.temp
        /\ isOpen' = open
        /\ availableDates' = dates
        /\ applyInstantly' = instant
        /\ event' = ev
        /\ UNCHANGED <<showDatePicker, hookVars, utilVars, apiVars>>

\* lines 172-178: the first render; applyInstantly comes from localStorage
InitPicker ==
    /\ dateRange = EmptyRange
    /\ showDatePicker = FALSE
    /\ availableDates = <<>>
    /\ isOpen = FALSE
    /\ applyInstantly \in BOOLEAN
    /\ tempDateRange = EmptyRange
    /\ event = Null
    /\ HookIdle
    /\ UtilsIdle
    /\ ApiIdle

\* the parent renders the picker with other dates (the data was replaced)
ParentDates(dates) ==
    /\ dates # availableDates
    /\ Commit(Outcome(dateRange, tempDateRange, FALSE), isOpen, dates, applyInstantly,
              Event("dates", Null, FALSE))

\* the button of the picker: setIsOpen(!isOpen)
PickerToggleOpen ==
    /\ Len(availableDates) > 0
    /\ Commit(Outcome(dateRange, tempDateRange, FALSE), ~isOpen, availableDates,
              applyInstantly, Event("open", Null, FALSE))

\* lines 184-192: the mouse is pressed outside the open picker
PickerClickOutside ==
    /\ Len(availableDates) > 0
    /\ isOpen
    /\ Commit(Outcome(dateRange, IF ~applyInstantly THEN dateRange ELSE tempDateRange, FALSE),
              FALSE, availableDates, applyInstantly,
              Event("outside", [discarded |-> tempDateRange # dateRange], FALSE))

\* lines 280-302
PickerDateChange(type, newDate) ==
    /\ Len(availableDates) > 0
    /\ isOpen
    /\ LET currentRange == IF applyInstantly THEN dateRange ELSE tempDateRange
           accepted == EditAccepted(type, newDate, currentRange)
           out == IF accepted
                  THEN Deliver(applyInstantly, EditRange(type, newDate, currentRange),
                               dateRange, tempDateRange)
                  ELSE Outcome(dateRange, tempDateRange, FALSE)
       IN  Commit(out, isOpen, availableDates, applyInstantly,
                  Event("edit", [type |-> type, newDate |-> newDate, accepted |-> accepted],
                        out.emitted))

\* lines 309-321
PickerReset ==
    /\ Len(availableDates) > 0
    /\ isOpen
    /\ LET out == Deliver(applyInstantly, FullRange(availableDates), dateRange,
                          tempDateRange)
       IN  Commit(out, isOpen, availableDates, applyInstantly,
                  Event("reset", Null, out.emitted))

\* lines 323-329
PickerDone ==
    /\ Len(availableDates) > 0
    /\ isOpen
    /\ LET out == IF ~applyInstantly THEN Outcome(tempDateRange, tempDateRange, TRUE)
                  ELSE Outcome(dateRange, tempDateRange, FALSE)
       IN  Commit(out, FALSE, availableDates, applyInstantly,
                  Event("done", [range |-> tempDateRange], out.emitted))

\* lines 331-339: the checkbox or its label is clicked
PickerToggleApplyInstantly ==
    /\ Len(availableDates) > 0
    /\ isOpen
    /\ LET newValue == ~applyInstantly
           out == IF newValue /\ ~applyInstantly
                  THEN Outcome(tempDateRange, tempDateRange, TRUE)
                  ELSE Outcome(dateRange, tempDateRange, FALSE)
       IN  Commit(out, isOpen, availableDates, newValue,
                  Event("instant", [range |-> tempDateRange], out.emitted))

NextPicker ==
    \/ \E dates \in AvailableDateLists : ParentDates(dates)
    \/ PickerToggleOpen
    \/ PickerClickOutside
    \/ \E type \in EditTypes, newDate \in DateInputs : PickerDateChange(type, newDate)
    \/ PickerReset
    \/ PickerDone
    \/ PickerToggleApplyInstantly

SpecPicker == InitPicker /\ [][NextPicker]_vars

(***************************************************************************)
(* Properties of the fetch clients.                                        *)
(***************************************************************************)
\* the last settled call was made to fn
LastCallOf(fn) == IF lastCall = Null THEN FALSE ELSE lastCall.fn = fn

\* the last settled call got its result from the network
AnsweredBy(kind) ==
    IF lastCall = Null THEN FALSE
    ELSE IF "answer" \in DOMAIN lastCall THEN lastCall.answer.kind = kind
    ELSE FALSE

\* a value that is an object in the sense of validateResponse's checks
IsObject(type) == type \in {"object", "array"}

\* a body that does not have the structure of a RuntimeDataResponse
Malformed(body) ==
    \/ ~IsObject(body.type)
    \/ ~IsObject(body.metaType)
    \/ body.sourcesType # "array"
    \/ ~IsObject(body.dataType)

\* a step in which a suspended service call gets its answer
Responding == Len(pending') = Len(pending) - 1

\* a step in which a service call suspends on the network
Requesting == Len(pending') = Len(pending) + 1

\* a step in which a service call returns without the network
ServedFromCache ==
    /\ lastCall' # lastCall
    /\ IF lastCall' = Null THEN FALSE
       ELSE lastCall'.fn = "service" /\ ~lastCall'.network

\* C12: fetchRuntimeData fails with an error carrying message, status and
\* statusText of the response when the HTTP response is non-2xx, and with an
\* error carrying a message and no status when the network request or the
\* JSON parse fails; in neither case does it return a payload.
C12_FetchErrors ==
    LastCallOf("fetchRuntimeData") =>
      /\ AnsweredBy("http") =>
           /\ ~lastCall.outcome.ok
           /\ DOMAIN lastCall.outcome.error = {"message", "status", "statusText"}
           /\ lastCall.outcome.error.status = lastCall.answer.status
           /\ lastCall.outcome.error.statusText = lastCall.answer.statusText
      /\ (AnsweredBy("network") \/ AnsweredBy("badjson") \/ AnsweredBy("rejected")) =>
           /\ ~lastCall.outcome.ok
           /\ DOMAIN lastCall.outcome.error = {"message"}
           /\ lastCall.outcome.error.message # ""

C12_Witness ==
    /\ LastCallOf("fetchRuntimeData")
    /\ AnsweredBy("http")
    /\ ~lastCall.outcome.ok
    /\ lastCall.outcome.error.status = 404

\* C13: in RuntimeDataService.fetchRuntimeData a non-2xx HTTP response
\* produces an error that reaches the caller with the response's status code
\* and status text.
C13_StatusReachesCaller ==
    (LastCallOf("service") /\ AnsweredBy("http")) =>
      /\ ~lastCall.outcome.ok
      /\ "status" \in DOMAIN lastCall.outcome.error
      /\ "statusText" \in DOMAIN lastCall.outcome.error
      /\ lastCall.outcome.error.status = lastCall.answer.status
      /\ lastCall.outcome.error.statusText = lastCall.answer.statusText

\* C14: a body that fails structural validation (not an object, meta not an
\* object, meta.sources not an array, or data not an object) makes the call
\* fail and leaves the cache as it was; such a body is never in the cache and
\* never returned by any call.
C14_MalformedNeverCached ==
    /\ [](cache # Null => ~Malformed(cache))
    /\ []((LastCallOf("service") /\ lastCall.outcome.ok) => ~Malformed(lastCall.outcome.value))
    /\ [][(Responding /\ lastCall'.answer.kind = "ok" /\ Malformed(lastCall'.answer.body))
            => /\ ~lastCall'.outcome.ok
               /\ cache' = cache
               /\ cacheTimestamp' = cacheTimestamp]_vars

C14_Witness ==
    /\ LastCallOf("service")
    /\ AnsweredBy("ok")
    /\ Malformed(lastCall.answer.body)
    /\ lastCall.answer.body.type = "object"
    /\ lastCall.answer.body.sourcesType = "array"
    /\ ~lastCall.outcome.ok
    /\ cache # Null

\* C15: a successful fetch stores its payload with the time of the store; a
\* call with useCache=true made less than cacheDuration after the store
\* returns the stored payload without a network request, and a call made at
\* or after that age, or with useCache=false, issues a network request.
C15_CacheWithinTTL ==
    /\ [][(Responding /\ lastCall'.outcome.ok)
            => /\ cache' = lastCall'.outcome.value
               /\ cacheTimestamp' = now]_vars
    /\ [][ServedFromCache
            => /\ lastCall'.useCache
               /\ cache # Null
               /\ now - cacheTimestamp < 5 * 60 * 1000
               /\ lastCall'.outcome = Resolved(cache)
               /\ pending' = pending]_vars
    /\ [][Requesting
            => \/ ~pending'[Len(pending')].useCache
               \/ cache = Null
               \/ now - cacheTimestamp >= 5 * 60 * 1000]_vars

\* a call served from the cache one clock step after the store
C15_Witness ==
    /\ LastCallOf("service")
    /\ ~lastCall.network
    /\ lastCall.outcome.value = cache
    /\ now - cacheTimestamp = ClockStep

\* a call that went to the network at exactly the cache duration
C15_WitnessExpired ==
    /\ cache # Null
    /\ now - cacheTimestamp = cacheDuration
    /\ Len(pending) > 0
    /\ pending[Len(pending)].useCache

(***************************************************************************)
(* Further properties of useRuntimeData.                                   *)
(***************************************************************************)
\* C26: while mounted, loading is true in every state in which a non-silent
\* fetch (the initial fetch or a manual refetch) is in flight, also when two
\* non-silent fetches overlap or a polling tick fires before the initial
\* fetch has settled.
C26_LoadingWhileNonSilentInFlight ==
    (phase = "mounted" /\ \E r \in inflight : ~r.silent) => loading

\* C27: at most one polling timer is active at any time, it is the one
\* pollingIntervalRef holds, and pollingIntervalRef is null when no timer is
\* active.
C27_AtMostOneTimer ==
    /\ Cardinality(timers) <= 1
    /\ timers # {} => timers = {pollingIntervalRef}
    /\ timers = {} => pollingIntervalRef = NoTimer

\* a second timer has replaced the first
C27_Witness ==
    /\ phase = "mounted"
    /\ nextTimer > 2
    /\ timers = {pollingIntervalRef}
    /\ pollingIntervalRef > 1

\* C28: if every started fetch settles, the mounted hook eventually reaches
\* loading = false and, once the manual refetches have ended, stays there
\* whatever polling ticks follow.
C28_LoadingEnds == <>[](phase = "mounted" => ~loading)

\* all fetches have settled, the last one a polling tick, and loading is off
C28_Witness ==
    /\ phase = "mounted"
    /\ inflight = {}
    /\ lastSettled # Null
    /\ lastSettled.by = "timer"
    /\ nextFetch > 2
    /\ ~loading

\* C29: once data holds a payload it holds one in every later state: no
\* settling of a fetch, no polling tick and no refetch sets it back to null.
C29_DataNeverReset == [][data # Null => data' # Null]_vars

\* a payload is held after a non-silent fetch has failed
C29_Witness ==
    /\ phase = "mounted"
    /\ data # Null
    /\ lastSettled # Null
    /\ ~lastSettled.silent
    /\ ~Succeeded(lastSettled)
    /\ error # Null

\* C30: cache and cacheTimestamp are both null or both set; a failed
\* fetchRuntimeData leaves both, and so what getCachedData returns, as they
\* were; clearCache makes getCachedData return null, and getCachedData goes
\* from null to a payload only by a successful fetch.
C30_CacheConsistent ==
    /\ []((cache = Null) <=> (cacheTimestamp = NoTime))
    /\ [][(Responding /\ ~lastCall'.outcome.ok)
            => /\ cache' = cache
               /\ cacheTimestamp' = cacheTimestamp
               /\ getCachedData' = getCachedData]_vars
    /\ [][(cache # Null /\ cache' = Null) => getCachedData' = Null]_vars
    /\ [][(getCachedData = Null /\ getCachedData' # Null)
            => Responding /\ lastCall'.outcome.ok]_vars

\* a fetch has failed after a payload was cached, and the payload is still
\* served by getCachedData
C30_Witness ==
    /\ LastCallOf("service")
    /\ lastCall.network
    /\ ~lastCall.outcome.ok
    /\ getCachedData # Null
    /\ now - cacheTimestamp = ClockStep

(***************************************************************************)
(* The CSV export.                                                         *)
(***************************************************************************)
\* C23: the export emits the header Date,Time,Source,Description,rtsources,
\* sys_volt,batt_curr,batt_volt,rect_curr,load_curr and, for each point of
\* the filtered date range, a data row of exactly 10 fields.
C23_CsvTenFields ==
    Called("handleDownloadData") =>
      /\ call.result[1] = <<"Date", "Time", "Source", "Description", "rtsources",
                            "sys_volt", "batt_curr", "batt_volt", "rect_curr",
                            "load_curr">>
      /\ \A i \in 2..Len(call.result) : Len(call.result[i]) = 10

(***************************************************************************)
(* Properties of the date range of Heatmap.                                *)
(***************************************************************************)
\* C22: the applied date range lies within the available dates: in every
\* state with a non-empty range and available dates, first available date
\* <= start and end <= last available date, also after a poll has replaced
\* the data with a payload whose dates differ.
C22_RangeWithinAvailable ==
    (phase = "mounted" /\ dateRange.start # "" /\ dateRange.end # "" /\ Len(allDates) > 0)
      => /\ StrLeq(allDates[1], dateRange.start)
         /\ StrLeq(dateRange.end, allDates[Len(allDates)])

\* C24: a step that changes the date range or opens or closes the picker,
\* other than the settling of a fetch that brings the dates the range is
\* initialised from, starts no fetch and leaves data, loading and error of
\* useRuntimeData as they are.
C24_DateChangeTouchesNoFetch ==
    [][((dateRange' # dateRange \/ showDatePicker' # showDatePicker) /\ ~Settling)
         => /\ Started = {}
            /\ nextFetch' = nextFetch
            /\ data' = data
            /\ loading' = loading
            /\ error' = error]_vars

\* the range has been narrowed to one date while a fetch is in flight, and
\* the filtered dates follow it
C24_Witness ==
    /\ Rendered
    /\ inflight # {}
    /\ dateRange.start = dateRange.end
    /\ dateRange # FullRange(allDates)
    /\ Len(filteredDates) = 1
    /\ Len(transformToHeatmapData(data.val, filteredDates)) = 2

(***************************************************************************)
(* Properties of DateRangePicker.                                          *)
(***************************************************************************)
\* the last event was of this kind
Handled(kind) == IF event = Null THEN FALSE ELSE event.kind = kind

\* the range the inputs of the picker show and edit, lines 283 and 342
CurrentRange == IF applyInstantly THEN dateRange ELSE tempDateRange

\* the edit would put the start after the end
WouldInvert(type, newDate, range) ==
    \/ type = "start" /\ StrLess(range.end, newDate)
    \/ type = "end" /\ StrLess(newDate, range.start)

\* C21: every sequence of date edits and of Reset, Done and apply-instantly
\* toggles leaves the applied range with start <= end, and an edit that
\* would make start > end changes neither the applied nor the temporary
\* range.
C21_RangeOrdered ==
    /\ [](StrLeq(dateRange.start, dateRange.end))
    /\ [][(event'.kind = "edit"
             /\ WouldInvert(event'.arg.type, event'.arg.newDate, CurrentRange))
            => /\ dateRange' = dateRange
               /\ tempDateRange' = tempDateRange
               /\ ~event'.emitted]_vars

\* an edit has been rejected on an initialised range
C21_Witness ==
    /\ Handled("edit")
    /\ ~event.arg.accepted
    /\ dateRange.start # ""
    /\ StrLeq(dateRange.start, dateRange.end)

\* the same for the date range Heatmap edits itself, Heatmap.tsx:338-359
HeatmapRangeOrdered == StrLeq(dateRange.start, dateRange.end)

====
